---- MODULE Spec2Model ----
(***************************************************************************)
(* Model of the Octave debugger runtime (src/src/Runtime.ts) and of the    *)
(* expression helper (src/src/Control/Expression.ts).                      *)
(*                                                                         *)
(* Strings are sequences of atoms.  The atoms are                          *)
(*   "P"   the prompt 'debug> ' (Runtime.PROMPT)                           *)
(*   "S"   the text `vsc::${Constants.MODULE_NAME}` (Runtime.SYNC)         *)
(*   ":"   a colon, "0".."9" decimal digits, "s" the letter s              *)
(*   "W"   one white-space character                                       *)
(*   "a", "b"  other printable characters                                  *)
(*   "Ff"  the text "'f' is a function from the file"; "F?" that text for  *)
(*         another name                                                    *)
(*   "NL"  the newline character                                           *)
(*   "undefined"  the text JavaScript gives the value undefined            *)
(***************************************************************************)
EXTENDS Integers, Sequences, FiniteSets, TLC

VARIABLES
    commandNumber,   \* Runtime._commandNumber
    inputHandler,    \* Runtime._inputHandler: queue of handler closures
    eventHandler,    \* Runtime._eventHandler: list of event predicates
    stdoutBuffer,    \* Runtime._stdoutBuffer
    stdoutHandled,   \* Runtime._stdoutHandled
    stdin,           \* the commands written and not yet executed, in order
    execPos,         \* number of written commands the subprocess has executed
    pipe,            \* stdout lines printed and not yet delivered as 'line'
    proc,            \* the child process: "running", "failed" or "closed"
    emitted,         \* the signals emitted to the dependents, in order
    maxToken,        \* the greatest value Runtime.sync has returned (0: none)
    fired,           \* the handlers that completed (invoked their callback), in order
    called,          \* the calls whose caller's callback was invoked, in order
    nextHid,         \* number of handlers pushed so far
    strays,          \* number of unsolicited stdout lines so far
    last             \* what the last step did (observations of one step)

vars == <<commandNumber, inputHandler, eventHandler, stdoutBuffer, stdoutHandled,
          stdin, execPos, pipe, proc, emitted, maxToken, fired, called,
          nextHid, strays, last>>

-----------------------------------------------------------------------------
(* Bounds of the model *)

\* the command counter stops API calls at MaxCmd; at MaxSerialCmd in the
\* specification of back-to-back calls
MaxCmd == 5
MaxSerialCmd == 8
MaxStray == 1
MaxEvent == 2
MaxExprCmd == 9

-----------------------------------------------------------------------------
(* Strings *)

Undefined == <<"undefined">>

PROMPT == "P"
SYNC == "S"

Digit(d) == <<"0", "1", "2", "3", "4", "5", "6", "7", "8", "9">>[d + 1]

RECURSIVE toDecimal(_)
toDecimal(n) == IF n < 10 THEN <<Digit(n)>>
                ELSE toDecimal(n \div 10) \o <<Digit(n % 10)>>

RECURSIVE dropLeading(_, _)
dropLeading(str, ch) ==
    IF str # <<>> /\ Head(str) = ch THEN dropLeading(Tail(str), ch) ELSE str

RECURSIVE dropTrailing(_, _)
dropTrailing(str, ch) ==
    IF str # <<>> /\ str[Len(str)] = ch
    THEN dropTrailing(SubSeq(str, 1, Len(str) - 1), ch) ELSE str

\* str.replace(Runtime.PROMPT_REGEX, '') with PROMPT_REGEX = /^(?:debug> )*/
stripPrompt(str) == dropLeading(str, PROMPT)

\* String.prototype.trim
trim(str) == dropTrailing(dropLeading(str, "W"), "W")

\* str.replace(Runtime.PROMPT_REGEX, '').trim()
promptStripTrim(str) == trim(stripPrompt(str))

\* Runtime.syncString
syncString(id) == <<SYNC, ":">> \o toDecimal(id)

\* Runtime.echo applied to a sync string: the command printf("<sync>\n")
echo(id) == [kind |-> "echo", id |-> id, text |-> syncString(id)]

\* Runtime.syncRegEx: /^(?:debug> )*<sync string>$/, kept as the text that
\* must follow the prompts
syncRegEx(id) == syncString(id)

\* a matcher without the final $: the sync string may be followed by more
matchSyncUnanchored(str, rx) ==
    IF rx = Undefined THEN TRUE
    ELSE LET r == stripPrompt(str)
         IN  Len(r) >= Len(rx) /\ SubSeq(r, 1, Len(rx)) = rx

\* str.match(syncRegex) !== null; a matcher that is still undefined behaves
\* as the empty pattern and matches every string
matchSync(str, rx) ==
    IF rx = Undefined THEN TRUE
    ELSE stripPrompt(str) = rx

\* data.match(Runtime.SYNC_REGEX): the template literal turns \s into s
matchSYNC_REGEX(str) ==
    LET r == dropLeading(stripPrompt(str), "s")
    IN  r # <<>> /\ Head(r) = SYNC

\* the text "'<expression>' is a function from the file"
Phrase(expression) == IF expression = <<"f">> THEN "Ff" ELSE "F?"

\* str.match(isFuncRegex) !== null
matchIsFunc(str, expression) ==
    \E i \in 1..Len(str) : str[i] = Phrase(expression)

-----------------------------------------------------------------------------
(* The subprocess: what a written command prints on stdout *)

\* Outputs of an expression statement: nothing; one line; a prompt followed
\* by white space, then a twice prompted line that ends in white space
ExprOut == { <<>>,
             << <<"a">> >>,
             << <<"P", "W">>, <<"P", "P", "a", "W">> >> }

\* Outputs of `which <expression>`: a line that is no descriptor of the
\* expression; the function descriptor; two descriptor lines
WhichOut(expression) ==
    { << <<"F?", "a">> >>,
      << <<Phrase(expression), "a">> >>,
      << <<"P", Phrase(expression), "a">>, <<Phrase(expression), "b">> >> }

\* Outputs of the program started by Runtime.start
ProgramOut == { <<>>, << <<"b">> >> }

\* printf("<sync>\n") prints the sync string, after zero or one prompt
EchoOut(cmd) == { << cmd.text >>, << <<PROMPT>> \o cmd.text >> }

\* addpath as a statement and quit print nothing on stdout
Output(cmd) ==
    CASE cmd.kind = "echo"    -> EchoOut(cmd)
      [] cmd.kind = "expr"    -> ExprOut
      [] cmd.kind = "which"   -> WhichOut(cmd.text)
      [] cmd.kind = "program" -> ProgramOut
      [] OTHER                -> { <<>> }

\* Lines the subprocess may print on stdout unasked: text, the sync
\* strings the first two queued handlers wait for, and the sync string of
\* the handler that completed last once more
StrayLines ==
    { <<"a">> }
      \cup { inputHandler[i].rx : i \in {j \in DOMAIN inputHandler : j <= 2} }
      \cup (IF fired # <<>> THEN { fired[Len(fired)].rx } ELSE {})

\* Lines close to the sync string rx: rx after two prompts, rx with a digit
\* more at its end or before its number, rx followed by white space, rx
\* after other text
NearSyncLines(rx) ==
    { <<PROMPT, PROMPT>> \o rx,
      rx \o <<"0">>,
      <<SYNC, ":", "1">> \o SubSeq(rx, 3, Len(rx)),
      rx \o <<"W">>,
      <<"a">> \o rx }

\* Lines of the secondary stream
ErrLines == { <<"e0">>, <<"e1">>, <<"e2">>, <<"e1", "e2">> }

\* The event predicates dependents register: "h1" consumes the lines that
\* hold e1, "h2" those that hold e2
EventPredicates == {"h1", "h2"}

eventCallback(p, data) ==
    \E i \in 1..Len(data) : data[i] = (IF p = "h1" THEN "e1" ELSE "e2")

\* The expressions callers evaluate
Expressions == { <<"f">> }
ConsoleExpressions == { <<"b", "f">> }

-----------------------------------------------------------------------------
(* Runtime: the operations, on the state a synchronous call chain threads  *)
(* through: q the handler queue, cn the command counter, stdin the writes, *)
(* and what the chain did: done the handlers completed, calls the callers' *)
(* callbacks invoked, issued the tokens Runtime.sync returned              *)

Cur == [q |-> inputHandler, cn |-> commandNumber, stdin |-> stdin,
        base |-> execPos, max |-> maxToken, fired |-> fired, called |-> called,
        hid |-> nextHid, done |-> <<>>, calls |-> <<>>, issued |-> <<>>]

Commit(c) ==
    /\ inputHandler' = c.q
    /\ commandNumber' = c.cn
    /\ stdin' = c.stdin
    /\ maxToken' = c.max
    /\ fired' = c.fired
    /\ called' = c.called
    /\ nextHid' = c.hid

\* a send that leaves the counter as it was
incrementCommandNumberLost(cn) == cn

\* ++this._commandNumber
incrementCommandNumber(cn) == cn + 1

\* Runtime.send
send(c, cmd) ==
    [c EXCEPT !.cn = incrementCommandNumber(@), !.stdin = Append(@, cmd)]

\* a sync that returns the token without writing the sync command
syncUnwritten(c) ==
    LET id == c.cn
    IN  [c EXCEPT !.issued = Append(@, id), !.max = IF id > @ THEN id ELSE @]

\* Runtime.sync: the token is the counter read before the echo is sent
sync(c) ==
    LET id == c.cn
    IN  [send(c, echo(id)) EXCEPT !.issued = Append(@, id),
                                  !.max = IF id > @ THEN id ELSE @]

\* the closure a handler is: its kind, its captured variables (rx the sync
\* matcher, value the accumulated text or the remembered descriptor) and its
\* completion callback (cont, expr, call).  Four fields only observe: cmd the
\* position on stdin of the command it follows, own the lines that command
\* printed, first the first descriptor line it was offered, born the number
\* of handlers completed before it was pushed
newHandler(c, kind, value, cont, expr, call) ==
    [hid |-> c.hid + 1, kind |-> kind, rx |-> Undefined, value |-> value,
     cont |-> cont, expr |-> expr, call |-> call,
     cmd |-> 0, own |-> <<>>, first |-> Undefined, born |-> Len(c.fired)]

\* a handler put at the front of the queue
pushHandlerAtFront(q, h) == <<h>> \o q

\* Array.prototype.push on the handler queue
pushHandler(q, h) == Append(q, h)

\* Runtime.addInputHandler
addInputHandler(c, h) ==
    [c EXCEPT !.q = pushHandler(@, h), !.hid = @ + 1]

\* a call that returns without assigning the captured variable
setMatcherNever(c, hid, id, cmd) == c

\* syncRegex = Runtime.syncRegEx(id): the assignment to the captured variable
setMatcher(c, hid, id, cmd) ==
    [c EXCEPT !.q = [i \in 1..Len(@) |->
        IF @[i].hid = hid THEN [@[i] EXCEPT !.rx = syncRegEx(id), !.cmd = cmd]
        ELSE @[i]]]

\* the position on stdin of the command written last
written(c) == c.base + Len(c.stdin)

\* Runtime.waitSync
waitSync(c, cont, call) ==
    LET h  == newHandler(c, "waitSync", <<>>, cont, <<>>, call)
        c1 == addInputHandler(c, h)
        c2 == sync(c1)
    IN  setMatcher(c2, h.hid, c1.cn, 0)

\* Runtime.waitSend
waitSend(c, cmd, cont, call) == waitSync(send(c, cmd), cont, call)

\* an evaluate that writes its sync command before the expression
evaluateSyncFirst(c, expression, cont, call) ==
    LET h  == newHandler(c, "evaluate", <<>>, cont, expression, call)
        c1 == addInputHandler(c, h)
        c2 == sync(c1)
        c3 == send(c2, [kind |-> "expr", text |-> expression])
    IN  setMatcher(c3, h.hid, c1.cn, written(c3))

\* Runtime.evaluate
evaluate(c, expression, cont, call) ==
    LET h  == newHandler(c, "evaluate", <<>>, cont, expression, call)
        c1 == addInputHandler(c, h)
        c2 == send(c1, [kind |-> "expr", text |-> expression])
        c3 == sync(c2)
    IN  setMatcher(c3, h.hid, c2.cn, written(c2))

\* Expression.isFunction
isFunction(c, expression, cont, call) ==
    LET h  == newHandler(c, "isFunction", Undefined, cont, expression, call)
        c1 == addInputHandler(c, h)
        c2 == send(c1, [kind |-> "which", text |-> expression])
        c3 == sync(c2)
    IN  setMatcher(c3, h.hid, c2.cn, written(c2))

\* the caller's callback: it is given arg
userCallback(c, call, arg) ==
    [c EXCEPT !.called = Append(@, call),
              !.calls = Append(@, [call |-> call, val |-> arg])]

\* a callback that evaluates the expression whatever isFunction found
expressionCallbackEvaluates(c, expression, call, info) ==
    evaluate(c, expression, "user", call)

\* the callback Expression.evaluate passes to Expression.isFunction
expressionCallback(c, expression, call, info) ==
    IF info = Undefined THEN evaluate(c, expression, "user", call)
    ELSE userCallback(c, call, info)

\* a handler invoking its completion callback with arg
invoke(h, arg, c) ==
    LET c1 == [c EXCEPT !.fired = Append(@, [hid |-> h.hid, kind |-> h.kind,
                                             rx |-> h.rx, born |-> h.born]),
                        !.done = Append(@, [h |-> h, val |-> arg])]
    IN  IF h.cont = "user" THEN userCallback(c1, h.call, arg)
        ELSE expressionCallback(c1, h.expr, h.call, arg)

\* value += str, newline-joined
appendLine(value, str) ==
    (IF value # <<>> THEN value \o <<"NL">> ELSE value) \o str

\* the text of a line the evaluate handler accumulates
contentOf(str) == promptStripTrim(str)

\* the handler Runtime.evaluate pushes
evaluateHandler(h, str, c) ==
    IF matchSync(str, h.rx)
    THEN [ret |-> TRUE, h |-> h, c |-> invoke(h, h.value, c)]
    ELSE LET s == contentOf(str)
         IN  [ret |-> FALSE,
              h |-> IF s # <<>> THEN [h EXCEPT !.value = appendLine(@, s)] ELSE h,
              c |-> c]

\* the handler Runtime.waitSync pushes
waitSyncHandler(h, str, c) ==
    IF matchSync(str, h.rx)
    THEN [ret |-> TRUE, h |-> h, c |-> invoke(h, <<>>, c)]
    ELSE [ret |-> FALSE, h |-> h, c |-> c]

\* val after a line that matches isFuncRegex
rememberDescriptor(val, str) == promptStripTrim(str)

\* the handler Expression.isFunction pushes
isFunctionHandler(h, str, c) ==
    IF matchSync(str, h.rx)
    THEN [ret |-> TRUE, h |-> h, c |-> invoke(h, h.value, c)]
    ELSE [ret |-> FALSE,
          h |-> IF matchIsFunc(str, h.expr)
                THEN [h EXCEPT !.value = rememberDescriptor(@, str),
                               !.first = IF @ = Undefined THEN str ELSE @]
                ELSE h,
          c |-> c]

\* callback(data.toString())
callHandler(h, str, c) ==
    CASE h.kind = "evaluate"   -> evaluateHandler(h, str, c)
      [] h.kind = "waitSync"   -> waitSyncHandler(h, str, c)
      [] h.kind = "isFunction" -> isFunctionHandler(h, str, c)

\* a handler put back at the end of the queue
unshiftHandlerAtBack(q, h) == Append(q, h)

\* this._inputHandler.unshift(callback)
unshiftHandler(q, h) == <<h>> \o q

\* a dispatch that drops the handler whatever it returned
keepsLineNever(defined, ret) == FALSE

\* a handler put back whatever it returned
keepsLineAlways(defined, ret) == defined

\* a dispatch that takes the handler from the back of the queue
shiftHandlerFromBack(q) == q[Len(q)]

\* the handler this._inputHandler.shift() returns
shiftHandler(q) == Head(q)

\* callback !== undefined && !callback(data.toString())
keepsLine(defined, ret) == defined /\ ~ret

-----------------------------------------------------------------------------
(* The state after `new Runtime(processName, sourceFolder)`: connect() has *)
(* spawned the process (which may have failed to start), both handler      *)
(* lists are empty, addFolder has written one command; _stdoutBuffer and   *)
(* _stdoutHandled were never assigned (undefined, which is falsy)          *)

addpath == [kind |-> "addpath", text |-> <<"a">>]

Init ==
    /\ commandNumber = 1
    /\ inputHandler = <<>>
    /\ eventHandler = <<>>
    /\ stdoutBuffer = Undefined
    /\ stdoutHandled = FALSE
    /\ stdin = <<addpath>>
    /\ execPos = 0
    /\ pipe = <<>>
    /\ proc \in {"running", "failed"}
    /\ emitted = <<>>
    /\ maxToken = 0
    /\ fired = <<>>
    /\ called = <<>>
    /\ nextHid = 0
    /\ strays = 0
    /\ last = [op |-> "new"]

-----------------------------------------------------------------------------
(* Calls of the public interface *)

\* commands the nested Runtime.evaluate of a pending Expression.evaluate may
\* still write
Reserved ==
    2 * Cardinality({i \in DOMAIN inputHandler : inputHandler[i].cont = "expr"})

CanWriteWithin(n, max) ==
    proc # "closed" /\ commandNumber + n + Reserved <= max

CanWrite(n) == CanWriteWithin(n, MaxCmd)

Call(c) ==
    /\ Commit(c)
    /\ last' = [op |-> "call", issued |-> c.issued, before |-> maxToken]
    /\ UNCHANGED <<eventHandler, stdoutBuffer, stdoutHandled, execPos, pipe,
                   proc, emitted, strays>>

Send ==
    /\ CanWrite(1)
    /\ Call(send(Cur, [kind |-> "expr", text |-> <<"a">>]))

Sync ==
    /\ CanWrite(1)
    /\ Call(sync(Cur))

WaitSync ==
    /\ CanWrite(1)
    /\ Call(waitSync(Cur, "user", nextHid + 1))

WaitSendWithin(max) ==
    /\ CanWriteWithin(2, max)
    /\ Call(waitSend(Cur, [kind |-> "expr", text |-> <<"a">>], "user", nextHid + 1))

WaitSend == WaitSendWithin(MaxCmd)

EvaluateWithin(max) ==
    /\ CanWriteWithin(2, max)
    /\ Call(evaluate(Cur, <<"x">>, "user", nextHid + 1))

Evaluate == EvaluateWithin(MaxCmd)

IsFunction ==
    /\ CanWrite(2)
    /\ \E e \in Expressions : Call(isFunction(Cur, e, "user", nextHid + 1))

\* Expression.evaluate with isConsole: expression.substr(1) is evaluated
ExpressionEvaluateConsoleWithin(max) ==
    /\ CanWriteWithin(2, max)
    /\ \E e \in ConsoleExpressions : Call(evaluate(Cur, Tail(e), "user", nextHid + 1))

ExpressionEvaluateConsole == ExpressionEvaluateConsoleWithin(MaxCmd)

\* Expression.evaluate without isConsole
ExpressionEvaluateWithin(max) ==
    /\ CanWriteWithin(4, max)
    /\ \E e \in Expressions : Call(isFunction(Cur, e, "expr", nextHid + 1))

ExpressionEvaluate == ExpressionEvaluateWithin(MaxCmd)

\* Runtime.addFolder
addFolder(c) == send(c, addpath)

AddFolder ==
    /\ CanWrite(1)
    /\ Call(addFolder(Cur))

\* Runtime.start
Start ==
    /\ CanWrite(2)
    /\ Call(send(addFolder(Cur), [kind |-> "program", text |-> <<"b">>]))

\* Runtime.disconnect
Disconnect ==
    /\ CanWrite(1)
    /\ Call(send(Cur, [kind |-> "quit", text |-> <<"q">>]))

\* Runtime.clearInputHandlers
ClearInputHandlers ==
    /\ proc # "closed"
    /\ inputHandler # <<>>
    /\ Call([Cur EXCEPT !.q = <<>>])

\* Runtime.addEventHandler
AddEventHandler ==
    /\ proc # "closed"
    /\ Len(eventHandler) < MaxEvent
    /\ \E p \in EventPredicates : eventHandler' = Append(eventHandler, p)
    /\ last' = [op |-> "call", issued |-> <<>>, before |-> maxToken]
    /\ UNCHANGED <<commandNumber, inputHandler, stdoutBuffer, stdoutHandled, stdin,
                   execPos, pipe, proc, emitted, maxToken, fired, called,
                   nextHid, strays>>

\* Runtime.clearEventHandlers
ClearEventHandlers ==
    /\ proc # "closed"
    /\ eventHandler # <<>>
    /\ eventHandler' = <<>>
    /\ last' = [op |-> "call", issued |-> <<>>, before |-> maxToken]
    /\ UNCHANGED <<commandNumber, inputHandler, stdoutBuffer, stdoutHandled, stdin,
                   execPos, pipe, proc, emitted, maxToken, fired, called,
                   nextHid, strays>>

-----------------------------------------------------------------------------
(* Events *)

\* what onStdout passes to this.warn when no handler kept the line
stdoutWarned(data, handled) ==
    IF handled \/ matchSYNC_REGEX(data) THEN <<>> ELSE <<data>>

\* Runtime.onStdout
onStdout(data) ==
    LET empty == inputHandler = <<>>
        c0 == [Cur EXCEPT !.q = IF empty THEN <<>> ELSE Tail(@)]
        r  == IF empty THEN [ret |-> TRUE, h |-> <<>>, c |-> c0]
              ELSE callHandler(shiftHandler(inputHandler), data, c0)
        obs == [op |-> "onStdout", data |-> data, empty |-> empty,
                offered |-> IF empty THEN 0 ELSE Head(inputHandler).hid,
                ret |-> r.ret, done |-> r.c.done, calls |-> r.c.calls,
                issued |-> r.c.issued, before |-> maxToken,
                buffer |-> stdoutBuffer, handled |-> stdoutHandled]
    IN  IF keepsLine(~empty, r.ret)
        THEN /\ Commit([r.c EXCEPT !.q = unshiftHandler(@, r.h)])
             /\ stdoutHandled' = TRUE
             /\ stdoutBuffer' = stdoutBuffer \o data
             /\ last' = obs @@
                        [warned |-> <<>>, debugged |-> <<>>]
        ELSE /\ Commit(r.c)
             /\ IF stdoutWarned(data, stdoutHandled) = <<>>
                THEN /\ stdoutBuffer' = <<>>
                     /\ stdoutHandled' = FALSE
                     /\ last' = obs @@ [warned |-> <<>>,
                                        debugged |-> <<stdoutBuffer>>]
                ELSE /\ UNCHANGED <<stdoutBuffer, stdoutHandled>>
                     /\ last' = obs @@ [warned |-> stdoutWarned(data, stdoutHandled),
                                        debugged |-> <<>>]

\* the subprocess executes the next written command and prints its output;
\* a `quit` ends the process instead (see OnExit)
Exec ==
    /\ proc = "running"
    /\ pipe = <<>>
    /\ stdin # <<>>
    /\ Head(stdin).kind # "quit"
    /\ \E out \in Output(Head(stdin)) :
          /\ pipe' = out
          /\ inputHandler' = [i \in DOMAIN inputHandler |->
                IF inputHandler[i].cmd = execPos + 1
                THEN [inputHandler[i] EXCEPT !.own = out] ELSE inputHandler[i]]
    /\ stdin' = Tail(stdin)
    /\ execPos' = execPos + 1
    /\ last' = [op |-> "exec"]
    /\ UNCHANGED <<commandNumber, eventHandler, stdoutBuffer, stdoutHandled,
                   proc, emitted, maxToken, fired, called, nextHid, strays>>

\* this._processStdout.on('line', data => { this.onStdout(data); })
Deliver ==
    /\ proc = "running"
    /\ pipe # <<>>
    /\ onStdout(Head(pipe))
    /\ pipe' = Tail(pipe)
    /\ UNCHANGED <<eventHandler, execPos, proc, emitted, strays>>

\* a line the subprocess prints unasked
Stray ==
    /\ proc = "running"
    /\ strays < MaxStray
    /\ \E data \in StrayLines : onStdout(data)
    /\ strays' = strays + 1
    /\ UNCHANGED <<eventHandler, execPos, pipe, proc, emitted>>

\* a line close to the sync string the front handler waits for
StrayNearSync ==
    /\ proc = "running"
    /\ strays < MaxStray
    /\ inputHandler # <<>>
    /\ \E data \in NearSyncLines(Head(inputHandler).rx) : onStdout(data)
    /\ strays' = strays + 1
    /\ UNCHANGED <<eventHandler, execPos, pipe, proc, emitted>>

\* a dispatch that goes on after a handler returned true
someCallsAll(handlers, data, i) == [k \in 1..Len(handlers) |-> k]

\* the calls this._eventHandler.some(...) makes: the indices of the handlers
\* invoked, in order
RECURSIVE someCalls(_, _, _)
someCalls(handlers, data, i) ==
    IF i > Len(handlers) THEN <<>>
    ELSE IF eventCallback(handlers[i], data) THEN <<i>>
    ELSE <<i>> \o someCalls(handlers, data, i + 1)

\* what onStderr passes to this.warn
stderrWarned(data, consumed) == <<data>>

\* an onStderr that takes the front input handler for the line
stateAfterStderrShifted(c, data) ==
    [c EXCEPT !.q = IF @ = <<>> THEN @ ELSE Tail(@)]

\* the runtime's fields after onStderr: its body assigns none of them and
\* calls only the event handlers and this.warn
stateAfterStderr(c, data) == c

\* Runtime.onStderr
onStderr(data) ==
    LET invoked  == someCalls(eventHandler, data, 1)
        consumed == invoked # <<>> /\
                    eventCallback(eventHandler[invoked[Len(invoked)]], data)
    IN  /\ last' = [op |-> "onStderr", data |-> data, invoked |-> invoked,
                    consumed |-> consumed, warned |-> stderrWarned(data, consumed)]
        /\ Commit(stateAfterStderr(Cur, data))
        /\ UNCHANGED <<eventHandler, stdoutBuffer, stdoutHandled, execPos, pipe,
                       proc, emitted, strays>>

\* this._processStderr.on('line', data => { this.onStderr(data); })
Stderr ==
    /\ proc = "running"
    /\ \E data \in ErrLines : onStderr(data)

\* this.emit(signal)
emit(signals, signal) == Append(signals, signal)

\* Runtime.onExit, on the process's 'close': the process has ended (a quit,
\* a crash, or after a failed spawn) and its streams are drained
OnExit ==
    /\ proc # "closed"
    /\ pipe = <<>>
    /\ proc = "failed" => emitted # <<>>
    /\ proc' = "closed"
    /\ emitted' = emit(emitted, "exit")
    /\ last' = [op |-> "onExit"]
    /\ UNCHANGED <<commandNumber, inputHandler, eventHandler, stdoutBuffer,
                   stdoutHandled, stdin, execPos, pipe, maxToken, fired, called,
                   nextHid, strays>>

\* Runtime.onError, on the process's 'error': the spawn failed
OnError ==
    /\ proc = "failed"
    /\ emitted = <<>>
    /\ emitted' = emit(emitted, "error")
    /\ last' = [op |-> "onError"]
    /\ UNCHANGED <<commandNumber, inputHandler, eventHandler, stdoutBuffer,
                   stdoutHandled, stdin, execPos, pipe, proc, maxToken, fired,
                   called, nextHid, strays>>

Next ==
    \/ Send
    \/ Sync
    \/ WaitSync
    \/ WaitSend
    \/ Evaluate
    \/ IsFunction
    \/ ExpressionEvaluateConsole
    \/ ExpressionEvaluate
    \/ AddFolder
    \/ Start
    \/ Disconnect
    \/ ClearInputHandlers
    \/ Exec
    \/ Deliver
    \/ Stray
    \/ OnExit
    \/ OnError

Spec == Init /\ [][Next]_vars

\* the secondary stream and its dispatcher, next to evaluations in flight
NextEvents ==
    \/ AddEventHandler
    \/ ClearEventHandlers
    \/ Stderr
    \/ Evaluate
    \/ Exec
    \/ Deliver

SpecEvents == Init /\ [][NextEvents]_vars

\* back-to-back calls against a subprocess that executes the written
\* commands in order and prints nothing unasked
NextSerial ==
    \/ EvaluateWithin(MaxSerialCmd)
    \/ WaitSendWithin(MaxSerialCmd)
    \/ ExpressionEvaluateConsoleWithin(MaxSerialCmd)
    \/ Exec
    \/ Deliver

SpecSerial == Init /\ [][NextSerial]_vars

\* every operation that writes to the subprocess, in any interleaving
NextWrites ==
    \/ Send
    \/ Sync
    \/ WaitSync
    \/ WaitSend
    \/ Evaluate
    \/ IsFunction
    \/ ExpressionEvaluate
    \/ AddFolder
    \/ Start
    \/ Disconnect
    \/ Exec
    \/ Deliver

SpecWrites == Init /\ [][NextWrites]_vars

\* the handlers of the primary stream against a subprocess that may print
\* any line, a sync string a second time included
NextHandlers ==
    \/ WaitSync
    \/ Evaluate
    \/ ExpressionEvaluate
    \/ ClearInputHandlers
    \/ Exec
    \/ Deliver
    \/ Stray

SpecHandlers == Init /\ [][NextHandlers]_vars

\* handlers offered the lines of a subprocess that prints lines close to
\* the sync string awaited
NextMatch ==
    \/ WaitSync
    \/ Evaluate
    \/ IsFunction
    \/ Exec
    \/ Deliver
    \/ StrayNearSync

SpecMatch == Init /\ [][NextMatch]_vars

\* callers of Expression.evaluate without isConsole, against a subprocess
\* that prints only what the written commands make it print
NextExpression ==
    \/ ExpressionEvaluateWithin(MaxExprCmd)
    \/ Exec
    \/ Deliver

SpecExpression == Init /\ [][NextExpression]_vars

\* callers that queue handlers of each kind, from calls and from inside
\* completion callbacks, against a subprocess that prints only what the
\* written commands make it print
NextQueue ==
    \/ ExpressionEvaluateWithin(MaxExprCmd)
    \/ EvaluateWithin(MaxExprCmd)
    \/ WaitSendWithin(MaxExprCmd)
    \/ Exec
    \/ Deliver

SpecQueue == Init /\ [][NextQueue]_vars

\* the same callers against a subprocess that stays alive and goes on
\* executing what is written, its lines going on being delivered
SpecQueueFair == SpecQueue /\ WF_vars(Exec) /\ WF_vars(Deliver)

-----------------------------------------------------------------------------
(* Properties *)

\* the handlers completed by the last step, when it was an onStdout
Done == IF last.op = "onStdout" THEN last.done ELSE <<>>

\* the newline-joined non-empty contents of lines: prompt-stripped, and
\* trimmed of white space when trimming
RECURSIVE JoinContents(_, _)
JoinContents(lines, trimming) ==
    IF lines = <<>> THEN <<>>
    ELSE LET s    == IF trimming THEN promptStripTrim(Head(lines))
                     ELSE stripPrompt(Head(lines))
             rest == JoinContents(Tail(lines), trimming)
         IN  IF s = <<>> THEN rest
             ELSE IF rest = <<>> THEN s ELSE s \o <<"NL">> \o rest

HasSync(str) == \E i \in 1..Len(str) : str[i] = SYNC

\* C1: with back-to-back calls against a subprocess that executes the
\* written commands in order, the callbacks are invoked in call order: the
\* k-th callback invoked is that of the k-th call, so no callback runs
\* before the callback of an earlier call
C1_CallbacksInCallOrder ==
    \A k \in 1..Len(fired) : fired[k].hid = k

\* three evaluations were called before the first callback ran, and all
\* three callbacks have run
C1_Witness ==
    /\ Len(fired) >= 3
    /\ \A k \in 1..3 : fired[k].kind = "evaluate" /\ fired[k].born = 0

\* C2 as stated: the string given to an evaluate callback is the
\* newline-joined sequence of the non-empty prompt-stripped lines its
\* command printed, and holds no sync string
C2_ResultIsPromptStrippedLines ==
    \A k \in 1..Len(Done) :
        Done[k].h.kind = "evaluate" =>
            /\ Done[k].val = JoinContents(Done[k].h.own, FALSE)
            /\ ~HasSync(Done[k].val)

\* C2 amended: the string given to an evaluate callback is the
\* newline-joined sequence of the lines its command printed, each stripped of
\* its leading prompts and then trimmed of white space, those left empty
\* dropped; it holds no line of another call and no sync string
C2_ResultIsTrimmedLines ==
    \A k \in 1..Len(Done) :
        Done[k].h.kind = "evaluate" =>
            /\ Done[k].val = JoinContents(Done[k].h.own, TRUE)
            /\ ~HasSync(Done[k].val)

\* the callback of an evaluation called while an earlier one was pending
\* is given the two lines its command printed, the earlier one's command
\* having printed a line too
C2_Witness ==
    /\ Len(fired) >= 2
    /\ \E k \in 1..Len(Done) :
          /\ Done[k].h.kind = "evaluate"
          /\ Done[k].h.born = 0
          /\ Done[k].h.hid >= 2
          /\ Len(Done[k].h.own) = 2
          /\ Done[k].val # <<>>

\* C3: every token Runtime.sync returns is greater than every token it
\* returned before, and the sync commands waiting on stdin carry distinct,
\* increasing tokens
C3_TokensStrictlyIncrease ==
    /\ last.op \in {"call", "onStdout"} =>
          \A i \in 1..Len(last.issued) :
              last.issued[i] > (IF i = 1 THEN last.before ELSE last.issued[i - 1])
    /\ \A i, j \in 1..Len(stdin) :
          (i < j /\ stdin[i].kind = "echo" /\ stdin[j].kind = "echo")
              => stdin[i].id < stdin[j].id

\* a token issued from within a handler's callback, after earlier tokens
C3_Witness ==
    /\ last.op = "onStdout"
    /\ last.issued # <<>>
    /\ last.before > 0

\* C4 as stated: once 'exit' or 'error' was emitted the queued handlers are
\* discarded
C4_HandlersDiscardedAfterSignal ==
    emitted # <<>> => inputHandler = <<>>

\* C5 as stated: after 'exit' or 'error' was emitted no further terminal
\* signal is emitted
C5_OneTerminalSignal ==
    Len(emitted) <= 1

\* C6: for a stderr line the event handlers are invoked in registration
\* order up to and including the first that returns true, each once, and no
\* later one is invoked
C6_StopsAtFirstMatch ==
    last.op = "onStderr" =>
        LET n       == Len(eventHandler)
            matches == {i \in 1..n : eventCallback(eventHandler[i], last.data)}
            stop    == IF matches = {} THEN n
                       ELSE CHOOSE i \in matches : \A j \in matches : i <= j
        IN  last.invoked = [i \in 1..stop |-> i]

\* a line the first of two registered handlers consumed
C6_Witness ==
    /\ last.op = "onStderr"
    /\ Len(eventHandler) = 2
    /\ last.invoked = <<1>>
    /\ eventCallback(eventHandler[2], last.data)

\* C7 as stated: a stderr line is passed to warn if and only if no event
\* handler returned true for it
C7_WarnedIffNotConsumed ==
    last.op = "onStderr" =>
        ((last.warned = <<last.data>>) <=> ~last.consumed)

\* C8 as stated: isFunction delivers the first descriptor line its handler
\* was offered (prompt-stripped and trimmed), and undefined when there was
\* none
C8_FirstDescriptorDelivered ==
    \A k \in 1..Len(Done) :
        Done[k].h.kind = "isFunction" =>
            Done[k].val = (IF Done[k].h.first = Undefined THEN Undefined
                           ELSE promptStripTrim(Done[k].h.first))

\* C9 as stated: a stdout line that arrives while the handler queue is
\* empty invokes no callback, is passed to warn, and is not appended to the
\* stdout buffer
C9_UnclassifiedLineIsWarned ==
    (last.op = "onStdout" /\ last.empty) =>
        /\ last.done = <<>>
        /\ last.calls = <<>>
        /\ last.warned = <<last.data>>
        /\ stdoutBuffer # last.buffer \o last.data

\* C10: no handler invokes its completion callback twice
C10_NoHandlerFiresTwice ==
    \A i, j \in 1..Len(fired) : i # j => fired[i].hid # fired[j].hid

\* the sync string of a completed handler is delivered once more and
\* completes nothing, a handler pushed from within a callback being queued
C10_Witness ==
    /\ last.op = "onStdout"
    /\ last.done = <<>>
    /\ \E k \in 1..Len(fired) : fired[k].rx = stripPrompt(last.data)
    /\ \E i \in 1..Len(inputHandler) : inputHandler[i].call # inputHandler[i].hid

\* the matcher of the handler the last onStdout offered its line to
OfferedRx ==
    IF last.ret THEN last.done[1].h.rx ELSE Head(inputHandler).rx

\* line is zero or more prompts followed by exactly text
IsPromptedText(line, text) ==
    \E k \in 0..Len(line) :
        line = [i \in 1..k |-> PROMPT] \o text

\* C11: a handler waiting for token t resolves on a line if and only if the
\* line is zero or more prompts followed by exactly the sync string of t
C11_ResolvesOnOwnMarkerOnly ==
    (last.op = "onStdout" /\ ~last.empty) =>
        /\ \E t \in 1..commandNumber : OfferedRx = syncString(t)
        /\ last.ret <=> IsPromptedText(last.data, OfferedRx)

\* the handler was offered the sync string of a token whose decimal form
\* starts with its own, and did not resolve
C11_Witness ==
    /\ last.op = "onStdout"
    /\ ~last.empty
    /\ ~last.ret
    /\ last.data = OfferedRx \o <<"0">>

\* the handlers of a queue, by identity
Hids(q) == [i \in DOMAIN q |-> q[i].hid]

\* the step is onStdout with the sync string the front handler waits for
MarkerArrives ==
    /\ last'.op = "onStdout"
    /\ IsPromptedText(last'.data, Head(inputHandler).rx)

\* C12: while the sync string awaited by the front handler does not arrive,
\* no callback is invoked, no handler leaves the queue or changes place, and
\* no terminal signal is raised, whatever else arrives or is called
C12_PendingUntilMarker ==
    [][(inputHandler # <<>> /\ ~MarkerArrives) =>
          /\ fired' = fired
          /\ called' = called
          /\ emitted' = emitted
          /\ Len(inputHandler') >= Len(inputHandler)
          /\ SubSeq(Hids(inputHandler'), 1, Len(inputHandler)) = Hids(inputHandler)]_vars

\* a line other than the awaited sync string was offered with two handlers
\* queued, and both are still queued
C12_Witness ==
    /\ last.op = "onStdout"
    /\ ~last.empty
    /\ ~last.ret
    /\ Len(inputHandler) >= 2
    /\ ~IsPromptedText(last.data, Head(inputHandler).rx)

\* C13: onStderr leaves the input-handler queue, the stdout buffer, the
\* stdout-handled flag and the command counter as they were, and calls the
\* event handlers from the first on whatever the input-handler queue holds
C13_StderrLeavesStdoutState ==
    [][last'.op = "onStderr" =>
          /\ UNCHANGED <<inputHandler, stdoutBuffer, stdoutHandled, commandNumber>>
          /\ eventHandler # <<>> => last'.invoked[1] = 1
          /\ eventHandler = <<>> => last'.invoked = <<>>]_vars

\* a stderr line was handled while an input handler was waiting and stdout
\* lines were buffered
C13_Witness ==
    /\ last.op = "onStderr"
    /\ last.invoked # <<>>
    /\ inputHandler # <<>>
    /\ stdoutHandled
    /\ stdoutBuffer # Undefined

\* C14: the string given to an evaluate callback is made of the lines its
\* own statement printed and of nothing else: no line printed by a command
\* written before it without a sync command (addpath, the program started,
\* a plain send) is in it
C14_ResultIsOwnOutputOnly ==
    \A k \in 1..Len(Done) :
        Done[k].h.kind = "evaluate" =>
            Done[k].val = JoinContents(Done[k].h.own, TRUE)

StrictlyIncreasing(seq) ==
    \A i, j \in DOMAIN seq : i < j => seq[i] < seq[j]

\* C15: a stdout line is offered to the front handler and to no other; a
\* handler that returns false is still the front one afterwards and the
\* others keep their order; a handler that returns true leaves and the
\* others keep their order; handlers complete in the order they were queued
C15_FrontHandlerOnlyInOrder ==
    /\ [](StrictlyIncreasing(Hids(inputHandler)) /\ StrictlyIncreasing(Hids(fired)))
    /\ [][(last'.op = "onStdout" /\ inputHandler # <<>>) =>
            /\ last'.offered = Head(inputHandler).hid
            /\ \A k \in DOMAIN last'.done : last'.done[k].h.hid = last'.offered
            /\ Len(last'.done) <= 1
            /\ Len(inputHandler') >= Len(inputHandler) - 1
            /\ IF last'.ret
               THEN /\ Len(last'.done) = 1
                    /\ SubSeq(Hids(inputHandler'), 1, Len(inputHandler) - 1)
                          = Tail(Hids(inputHandler))
               ELSE /\ last'.done = <<>>
                    /\ Hids(inputHandler') = Hids(inputHandler)]_vars

\* with three handlers queued the front one was offered a line and returned
\* false, an earlier handler having completed
C15_Witness ==
    /\ last.op = "onStdout"
    /\ ~last.empty
    /\ ~last.ret
    /\ Len(inputHandler) >= 3
    /\ fired # <<>>

\* C16: the callbacks of Expression.evaluate calls are invoked in the order
\* of the calls: the callback of a call is never invoked before that of a
\* call made earlier
C16_ExpressionCallbacksInCallOrder ==
    StrictlyIncreasing(called)

\* C17: no handler is offered a line before its sync matcher is assigned:
\* whenever onStdout may run every queued handler has its matcher, and so has
\* the handler a line was offered to
C17_MatcherAssignedBeforeOffered ==
    /\ \A i \in DOMAIN inputHandler : inputHandler[i].rx # Undefined
    /\ (last.op = "onStdout" /\ ~last.empty) => OfferedRx # Undefined

\* a handler pushed from inside a callback, during onStdout, was offered a
\* line
C17_Witness ==
    /\ last.op = "onStdout"
    /\ ~last.empty
    /\ ~last.ret
    /\ Head(inputHandler).call # Head(inputHandler).hid
    /\ Head(inputHandler).rx # Undefined

\* the calls of Expression.evaluate whose isFunction has resolved
ResolvedCalls == { fired[k].hid : k \in { i \in DOMAIN fired : fired[i].kind = "isFunction" } }

\* C18: the callback of a non-console Expression.evaluate call is invoked
\* at most once, and once when every written command has been executed and
\* its lines delivered; when isFunction was offered a descriptor line it is
\* invoked with a descriptor as isFunction resolves and no command is
\* written; otherwise nothing is evaluated before isFunction resolves, then
\* the expression and its sync command are written and the callback is
\* invoked with what that evaluate's handler collected
C18_ExpressionCallbackOnce ==
    /\ \A i, j \in DOMAIN called : i # j => called[i] # called[j]
    /\ (stdin = <<>> /\ pipe = <<>>) =>
          /\ inputHandler = <<>>
          /\ \A id \in ResolvedCalls : \E i \in DOMAIN called : called[i] = id
    /\ \A i, j \in DOMAIN inputHandler :
          inputHandler[i].kind = "isFunction" =>
              ~(inputHandler[j].kind = "evaluate" /\ inputHandler[j].call = inputHandler[i].call)
    /\ \A k \in DOMAIN Done :
          LET h == Done[k].h
              v == Done[k].val
          IN  /\ h.kind = "evaluate" => last.calls = <<[call |-> h.call, val |-> v]>>
              /\ (h.kind = "isFunction" /\ h.first # Undefined) =>
                    /\ last.calls = <<[call |-> h.call, val |-> v]>>
                    /\ matchIsFunc(v, h.expr)
                    /\ last.issued = <<>>
                    /\ \A i \in DOMAIN inputHandler : inputHandler[i].call # h.call
              /\ (h.kind = "isFunction" /\ h.first = Undefined) =>
                    /\ last.calls = <<>>
                    /\ Len(last.issued) = 1
                    /\ Len(stdin) >= 2
                    /\ stdin[Len(stdin) - 1] = [kind |-> "expr", text |-> h.expr]
                    /\ stdin[Len(stdin)] = echo(last.issued[1])
                    /\ inputHandler # <<>>
                    /\ LET e == inputHandler[Len(inputHandler)]
                       IN  /\ e.kind = "evaluate"
                           /\ e.call = h.call
                           /\ e.expr = h.expr
                           /\ e.rx = syncString(last.issued[1])

\* two calls were made; isFunction did not find the first a function, its
\* nested evaluate has now completed with a result, and both callbacks have
\* been invoked
C18_Witness ==
    /\ Len(called) = 2
    /\ stdin = <<>>
    /\ pipe = <<>>
    /\ \E k \in DOMAIN Done :
          /\ Done[k].h.kind = "evaluate"
          /\ Done[k].h.call = 1
          /\ Done[k].val # <<>>

\* the token a sync string carries
TokenOf(rx) == CHOOSE t \in 0..commandNumber : syncString(t) = rx

\* the sync strings of the queued handlers
Awaited == [i \in DOMAIN inputHandler |-> inputHandler[i].rx]

IsAwaitedEcho(cmd) ==
    cmd.kind = "echo" /\ \E i \in DOMAIN inputHandler : inputHandler[i].rx = cmd.text

\* the sync strings of the sync commands not yet executed that a queued
\* handler waits for, in the order written
AwaitedOnStdin ==
    LET e == SelectSeq(stdin, IsAwaitedEcho)
    IN  [i \in DOMAIN e |-> e[i].text]

\* C19: the queued handlers are in the order their sync commands were
\* written (tokens increase along the queue, and the sync commands still on
\* stdin are in queue order); the handler a call pushes waits for the token
\* of the sync command that call wrote, and that sync command directly
\* follows the call's command on stdin; also for a handler pushed from
\* inside a completion callback during onStdout
C19_QueueOrderIsMarkerOrder ==
    /\ [](/\ \A i \in DOMAIN inputHandler :
              \E t \in 1..commandNumber : inputHandler[i].rx = syncString(t)
          /\ StrictlyIncreasing([i \in DOMAIN inputHandler |-> TokenOf(inputHandler[i].rx)])
          /\ Len(AwaitedOnStdin) <= Len(inputHandler)
          /\ AwaitedOnStdin = SubSeq(Awaited, Len(Awaited) - Len(AwaitedOnStdin) + 1,
                                     Len(Awaited)))
    /\ [][nextHid' # nextHid =>
            /\ nextHid' = nextHid + 1
            /\ Len(inputHandler') >= 1
            /\ Len(last'.issued) = 1
            /\ LET h == inputHandler'[Len(inputHandler')]
                   t == last'.issued[1]
               IN  /\ h.hid = nextHid'
                   /\ h.rx = syncString(t)
                   /\ h.kind = "waitSync" =>
                         \/ stdin' = Append(stdin, echo(t))
                         \/ /\ Len(stdin') = Len(stdin) + 2
                            /\ SubSeq(stdin', 1, Len(stdin)) = stdin
                            /\ stdin'[Len(stdin')] = echo(t)
                   /\ h.kind = "evaluate" =>
                         stdin' = stdin \o <<[kind |-> "expr", text |-> h.expr], echo(t)>>
                   /\ h.kind = "isFunction" =>
                         stdin' = stdin \o <<[kind |-> "which", text |-> h.expr], echo(t)>>]_vars

\* an evaluate handler pushed from inside a completion callback is queued
\* behind a handler of a later call, its sync command still on stdin
C19_Witness ==
    /\ Len(inputHandler) >= 2
    /\ inputHandler[Len(inputHandler)].call # inputHandler[Len(inputHandler)].hid
    /\ AwaitedOnStdin # <<>>
    /\ last.op = "onStdout"

Queued(hid) == \E i \in DOMAIN inputHandler : inputHandler[i].hid = hid

Fired(hid) == \E k \in DOMAIN fired : fired[k].hid = hid

\* C20: with a subprocess that stays alive, executes the written commands
\* in order and prints each sync string as a line, every handler queued by
\* evaluate, waitSync or isFunction eventually completes, and once no more
\* calls are made the queue empties and stays empty
C20_HandlersEventuallyFire ==
    /\ \A hid \in 1..MaxExprCmd : (proc = "running" /\ Queued(hid)) ~> Fired(hid)
    /\ <>[](proc = "running" => inputHandler = <<>>)

\* handlers of the three kinds have completed, one of them pushed from
\* inside a completion callback, and the queue is empty
C20_Witness ==
    /\ inputHandler = <<>>
    /\ \E i, j, k \in DOMAIN fired :
          /\ fired[i].kind = "isFunction"
          /\ fired[j].kind = "evaluate" /\ fired[j].born > 0 /\ j = i + 1
          /\ fired[k].kind = "waitSync"

====
